---- MODULE Spec2Model ----
(***************************************************************************)
(* Model of the battery usage analyzer: the numerical core                 *)
(* (src/data_processing.py, duplicated in src/analyzer.py), the text       *)
(* parser, the spreadsheet loader (src/loader.py), the figures             *)
(* (src/plotting.py and, with staircases, src/analyzer/plotting.py) and    *)
(* main(), which runs readings -> calculate_segments ->                    *)
(* calculate_segment_metrics -> calculate_event_gradients -> candidate     *)
(* gradients -> three figures.  Every specification is this pipeline, or a *)
(* prefix of it, over its own bounded set of inputs:                       *)
(*   Spec, SpecEvents             up to the event aligner;                 *)
(*   SpecSegments, SpecMetrics    the segmenter, then the segment metrics; *)
(*   SpecUsage, SpecZero          up to the candidate gradients;           *)
(*   SpecPrediction               up to the figures of src/plotting.py;    *)
(*   SpecStaircase                up to the figures with staircases;       *)
(*   SpecParser                   parse_battery_data alone;                *)
(*   SpecMain                     main() of src/main.py from the file      *)
(*                                dialog on.                               *)
(*                                                                         *)
(* A reading is the tuple <<time, value>> of the source, p[0] and p[1]     *)
(* there, p[1] and p[2] here.  Times are whole minutes (the resolution of  *)
(* the "%H%M" input format), values are integers.  A Python float that is  *)
(* the quotient of two integers is kept as the exact reduced fraction      *)
(* <<numerator, denominator>> with a positive denominator.  An exception   *)
(* ends the run in the state "failed" with its name in error.              *)
(***************************************************************************)
EXTENDS Integers, Sequences, FiniteSets, TLC

VARIABLES data_points, events, raw_segments, processed_segments,
          event_gradients, pc,
          usage_points, pred_gradient_1, pred_gradient_2,
          predictions, figures, error,
          raw_data, diagnostics, workbook, file_path, excel_data

\* the inputs and results of the sources of the readings: the text parser
\* and the spreadsheet loader
sourceVars == <<raw_data, diagnostics, workbook, file_path, excel_data>>

\* the results of the steps of main() that follow the event aligner
laterVars == <<usage_points, pred_gradient_1, pred_gradient_2,
               predictions, figures>>

vars == <<data_points, events, raw_segments, processed_segments,
          event_gradients, pc,
          usage_points, pred_gradient_1, pred_gradient_2,
          predictions, figures, error,
          raw_data, diagnostics, workbook, file_path, excel_data>>

\* ---------------------------------------------------------------- bounds
\* inputs with timestamps in order, one minute apart: length and values
MaxLen == 5
MaxValue == 3
\* inputs with free timestamps: length, timestamps and values
MaxTimedLen == 4
MaxTime == 2
MaxLevel == 1
\* inputs of the event aligner: readings and events
MaxAlignLen == 2
MaxEvents == 1
\* lists of labelled events: length and start times
MaxEventList == 2
MaxTagStart == 1
\* inputs of the usage estimator: length and timestamps in whole days
MaxUsageLen == 3
MaxDays == 3
\* inputs with duplicate timestamps run through the whole analysis: length
MaxZeroLen == 3
\* raw text: number of lines
MaxLines == 2
\* workbook: number of rows of the 'Data' sheet
MaxRows == 2

\* ------------------------------------------------------------- fractions
Abs(x) == IF x < 0 THEN -x ELSE x

RECURSIVE Gcd(_, _)
Gcd(a, b) == IF b = 0 THEN a ELSE Gcd(b, a % b)

\* what a division by zero leaves in place of a number; every operation
\* on it gives it again, as the exception passes through the expression
ZeroDivisionError == <<1, 0>>

\* the reduced fraction n/d; a zero d is a division by zero
Frac(n, d) ==
    IF d = 0
    THEN ZeroDivisionError
    ELSE LET g == Gcd(Abs(n), Abs(d))
             s == IF d < 0 THEN -1 ELSE 1
         IN  <<(s * n) \div g, (s * d) \div g>>

FromInt(n) == <<n, 1>>
\* sums are taken over the least common denominator
Lcm(a, b) == (a \div Gcd(a, b)) * b

FAdd(x, y) ==
    IF x[2] = 0 \/ y[2] = 0
    THEN ZeroDivisionError
    ELSE LET d == Lcm(x[2], y[2])
         IN  Frac(x[1] * (d \div x[2]) + y[1] * (d \div y[2]), d)

FSub(x, y) == FAdd(x, <<-y[1], y[2]>>)
FMul(x, y) == Frac(x[1] * y[1], x[2] * y[2])
FDiv(x, y) == Frac(x[1] * y[2], x[2] * y[1])
FSign(x) == IF x[1] < 0 THEN -1 ELSE IF x[1] = 0 THEN 0 ELSE 1
Sign(n) == IF n < 0 THEN -1 ELSE IF n = 0 THEN 0 ELSE 1

\* -------------------------------------------------------------- readings
Time(p) == p[1]
Value(p) == p[2]

\* (b - a).total_seconds() / 3600 for two times in minutes
hours_between(a, b) == Frac(b - a, 60)

\* ---------------------------------------------------- parse_battery_data
\* The raw text is the sequence of its lines (the pieces between "\n"), a
\* line the sequence of the fields line.split() gives; a line of whitespace
\* only has no field.
\* datetime.strptime(..., "%d.%m.%Y %H%M") accepts the date field
is_date(field) == field = "25.8.2025"

\* ... and the time field: one or two digits of hours, then of minutes
is_time(field) == field \in {"1344", "37"}

\* int(value_str) accepts the field
is_int(field) == field \in {"1344", "37"}

\* minutes since 25.8.2025 00:00: "1344" is 13:44 and "37" is 03:07
strptime(date_str, time_str) == IF time_str = "1344" THEN 13 * 60 + 44 ELSE 3 * 60 + 7

int(value_str) == IF value_str = "1344" THEN 1344 ELSE 37

\* lines 14-16: the three statements of the try block succeed
line_parses(line) ==
    /\ Len(line) = 3
    /\ is_date(line[1]) /\ is_time(line[2])
    /\ is_int(line[3])

\* raw_data.strip() as it acts on the lines: the lines without a field at
\* the start and at the end of the text go with the surrounding whitespace
RECURSIVE strip_leading(_)
strip_leading(lines) ==
    IF lines # <<>> /\ lines[1] = <<>> THEN strip_leading(Tail(lines)) ELSE lines

RECURSIVE strip_trailing(_)
strip_trailing(lines) ==
    IF lines # <<>> /\ lines[Len(lines)] = <<>>
    THEN strip_trailing(SubSeq(lines, 1, Len(lines) - 1))
    ELSE lines

strip(lines) == strip_trailing(strip_leading(lines))

\* lines 12-20: the loop; the result is the readings and the diagnostics
RECURSIVE parse_lines_break(_, _, _, _)
parse_lines_break(lines, i, points, notices) ==
    IF i > Len(lines)
    THEN [data_points |-> points, diagnostics |-> notices]
    ELSE IF line_parses(lines[i])
         THEN parse_lines_break(lines, i + 1,
                  Append(points, <<strptime(lines[i][1], lines[i][2]), int(lines[i][3])>>),
                  notices)
         ELSE [data_points |-> points, diagnostics |-> Append(notices, lines[i])]

RECURSIVE parse_lines(_, _, _, _)
parse_lines(lines, i, points, notices) ==
    IF i > Len(lines)
    THEN [data_points |-> points, diagnostics |-> notices]
    ELSE IF line_parses(lines[i])
         THEN parse_lines(lines, i + 1,
                  Append(points, <<strptime(lines[i][1], lines[i][2]), int(lines[i][3])>>),
                  notices)
         ELSE parse_lines(lines, i + 1, points, Append(notices, lines[i]))

parse_battery_data(raw) ==
    IF strip(raw) = <<>>
    THEN [data_points |-> <<>>, diagnostics |-> <<>>]
    ELSE parse_lines(strip(raw), 1, <<>>, <<>>)

\* --------------------------------------------------- load_data_from_excel
\* A workbook is [data_sheet, rows, events_sheet, event_rows]: a sheet is
\* "present" or "missing"; a row of 'Data' is <<Date, Time, Battery>>, a row
\* of 'Events' <<Label, Color, Start Date, Start Time, Duration [min]>>.  A
\* date is a day number or EmptyCell, a time the minutes of the day or
\* BadTime for a text that is not in the "%H:%M:%S" format.
EmptyCell == -1
BadTime == -1

\* line 19: an empty date takes the date of the row before it
RECURSIVE ffill(_, _)
ffill(dates, previous) ==
    IF dates = <<>>
    THEN <<>>
    ELSE LET date == IF dates[1] = EmptyCell THEN previous ELSE dates[1]
         IN  <<date>> \o ffill(Tail(dates), date)

\* lines 22 and 30: pd.to_datetime of "<date> <time>" raises when the text
\* does not match the format
to_datetime_raises(date, time) == date = EmptyCell \/ time = BadTime

\* ... and gives the minutes since day 0 otherwise
to_datetime(date, time) == 1440 * date + time

Dates(rows) == ffill([i \in 1..Len(rows) |-> rows[i][1]], EmptyCell)

\* lines 16-25
battery_data_of(rows) ==
    [i \in 1..Len(rows) |-> <<to_datetime(Dates(rows)[i], rows[i][2]), rows[i][3]>>]

\* the 'Data' sheet cannot be turned into readings
data_sheet_raises(wb) ==
    \/ wb.data_sheet = "missing"
    \/ \E i \in 1..Len(wb.rows) : to_datetime_raises(Dates(wb.rows)[i], wb.rows[i][2])

\* the 'Events' sheet cannot be turned into events
events_sheet_raises(wb) ==
    \/ wb.events_sheet = "missing"
    \/ \E i \in 1..Len(wb.event_rows) :
          to_datetime_raises(wb.event_rows[i][3], wb.event_rows[i][4])

\* the exception that ends the try block, "none" if it runs to its end
load_error(path, wb) ==
    IF path = "None"
    THEN "Exception"
    ELSE IF path = "missing.xlsx"
    THEN "FileNotFoundError"
    ELSE IF data_sheet_raises(wb) \/ events_sheet_raises(wb)
    THEN "Exception"
    ELSE "none"

\* what main() holds before the loader has run
NoExcelData == [value |-> "unset", keys |-> {}, battery_data |-> <<>>, events_data |-> <<>>]

\* the value None
None == [value |-> "None", keys |-> {}, battery_data |-> <<>>, events_data |-> <<>>]

\* lines 47-52: both handlers return None, whatever was built before
loader_failure_partial(battery_data) ==
    [value |-> "dict", keys |-> {"battery_data"},
     battery_data |-> battery_data, events_data |-> <<>>]

loader_failure(battery_data) == None

\* no workbook is involved
NoWorkbook ==
    [data_sheet |-> "missing", rows |-> <<>>, events_sheet |-> "missing", event_rows |-> <<>>]

NoFile == workbook = NoWorkbook /\ file_path = "unset" /\ excel_data = NoExcelData

\* ---------------------------------------------------- calculate_segments
\* line 37: the product of the two deltas at the interior reading i
trend_change_inverted(dp, i) ==
    (Value(dp[i]) - Value(dp[i - 1])) * (Value(dp[i + 1]) - Value(dp[i])) > 0

trend_change_peak_only(dp, i) ==
    Value(dp[i]) - Value(dp[i - 1]) > 0 /\ Value(dp[i + 1]) - Value(dp[i]) < 0

trend_change_le(dp, i) ==
    (Value(dp[i]) - Value(dp[i - 1])) * (Value(dp[i + 1]) - Value(dp[i])) <= 0

trend_change(dp, i) ==
    (Value(dp[i]) - Value(dp[i - 1])) * (Value(dp[i + 1]) - Value(dp[i])) < 0

\* line 40: the segment opened at a split starts with the split reading
open_segment_empty(p) == <<>>

open_segment(p) == <<p>>

\* lines 44-45: the last reading closes the open segment
close_last_segment_missing(segs, cur, dp) == Append(segs, cur)

close_last_segment(segs, cur, dp) == Append(segs, Append(cur, dp[Len(dp)]))

\* lines 32-42: the loop over the interior readings (i is 1-based here)
RECURSIVE segments_loop(_, _, _, _)
segments_loop(dp, i, segs, cur) ==
    IF i > Len(dp) - 1
    THEN close_last_segment(segs, cur, dp)
    ELSE IF trend_change(dp, i)
         THEN segments_loop(dp, i + 1, Append(segs, Append(cur, dp[i])),
                            open_segment(dp[i]))
         ELSE segments_loop(dp, i + 1, segs, Append(cur, dp[i]))

calculate_segments_no_guard(dp) ==
    IF Len(dp) < 1
    THEN <<>>
    ELSE segments_loop(dp, 2, <<>>, <<dp[1]>>)

calculate_segments(dp) ==
    IF Len(dp) < 2
    THEN <<>>
    ELSE segments_loop(dp, 2, <<>>, <<dp[1]>>)

\* --------------------------------------------- calculate_segment_metrics
\* lines 58-60: the average gradient between the end readings of a segment
segment_avg_gradient_reversed(start_point, end_point) ==
    LET duration_hours == hours_between(Time(start_point), Time(end_point))
        value_change == Value(start_point) - Value(end_point)
    IN  IF duration_hours # FromInt(0)
        THEN FDiv(FromInt(value_change), duration_hours)
        ELSE FromInt(0)

segment_avg_gradient(start_point, end_point) ==
    LET duration_hours == hours_between(Time(start_point), Time(end_point))
        value_change == Value(end_point) - Value(start_point)
    IN  IF duration_hours # FromInt(0)
        THEN FDiv(FromInt(value_change), duration_hours)
        ELSE FromInt(0)

\* line 65: a sub-interval counts when its duration is strictly positive
sub_duration_valid_nonzero(sub_duration_hours) == FSign(sub_duration_hours) # 0

sub_duration_valid(sub_duration_hours) == FSign(sub_duration_hours) > 0

\* lines 62-67: the sub-gradients of the consecutive pairs from i on
RECURSIVE sub_gradients_from(_, _)
sub_gradients_from(segment, i) ==
    IF i > Len(segment) - 1
    THEN <<>>
    ELSE LET sub_duration_hours ==
                 hours_between(Time(segment[i]), Time(segment[i + 1]))
             rest == sub_gradients_from(segment, i + 1)
         IN  IF sub_duration_valid(sub_duration_hours)
             THEN <<FDiv(FromInt(Value(segment[i + 1]) - Value(segment[i])),
                         sub_duration_hours)>> \o rest
             ELSE rest

RECURSIVE FSum(_)
FSum(xs) == IF xs = <<>> THEN FromInt(0) ELSE FAdd(xs[1], FSum(Tail(xs)))

\* np.mean of a non-empty list
np_mean(xs) == FDiv(FSum(xs), FromInt(Len(xs)))

\* np.std of a non-empty list, kept as its square: the mean of the squared
\* deviations from the mean (the standard deviation is its square root)
np_std_squared(xs) ==
    LET m == np_mean(xs)
    IN  np_mean([j \in 1..Len(xs) |-> FMul(FSub(xs[j], m), FSub(xs[j], m))])

\* lines 54-76: the record of one segment; variability holds the square of
\* the value the source stores
segment_metrics(segment) ==
    LET start_point == segment[1]
        end_point == segment[Len(segment)]
        sub_gradients == sub_gradients_from(segment, 1)
    IN  [start |-> start_point,
         end |-> end_point,
         avg_gradient |-> segment_avg_gradient(start_point, end_point),
         variability |-> IF sub_gradients # <<>>
                         THEN np_std_squared(sub_gradients)
                         ELSE FromInt(0)]

calculate_segment_metrics(segments) ==
    [k \in 1..Len(segments) |-> segment_metrics(segments[k])]

\* --------------------------------------------- calculate_event_gradients
\* lines 92-93: min(range(n), key = |time - t|) keeps the first minimum: a
\* later index replaces the best one only when its key is strictly smaller
closer_or_equal(dp, i, best, t) == Abs(Time(dp[i]) - t) <= Abs(Time(dp[best]) - t)

closer(dp, i, best, t) == Abs(Time(dp[i]) - t) < Abs(Time(dp[best]) - t)

RECURSIVE closest_index_from(_, _, _, _)
closest_index_from(dp, i, best, t) ==
    IF i > Len(dp)
    THEN best
    ELSE closest_index_from(dp, i + 1, IF closer(dp, i, best, t) THEN i ELSE best, t)

closest_index(dp, t) == closest_index_from(dp, 2, 1, t)

\* lines 98-100: the gradient between the two matched readings
event_avg_gradient_nonzero(start_point, end_point) ==
    LET duration_hours == hours_between(Time(start_point), Time(end_point))
        value_change == Value(end_point) - Value(start_point)
    IN  IF FSign(duration_hours) # 0
        THEN FDiv(FromInt(value_change), duration_hours)
        ELSE FromInt(0)

event_avg_gradient(start_point, end_point) ==
    LET duration_hours == hours_between(Time(start_point), Time(end_point))
        value_change == Value(end_point) - Value(start_point)
    IN  IF FSign(duration_hours) > 0
        THEN FDiv(FromInt(value_change), duration_hours)
        ELSE FromInt(0)

\* lines 88-108: the record of one event
event_gradient(dp, event) ==
    LET start_point == dp[closest_index(dp, event.start_time)]
        end_point == dp[closest_index(dp, event.end_time)]
    IN  [label |-> event.label,
         gradient |-> event_avg_gradient(start_point, end_point),
         color |-> event.color,
         start_point |-> start_point,
         end_point |-> end_point]

calculate_event_gradients_reversed(dp, evs) ==
    IF dp = <<>>
    THEN <<>>
    ELSE [e \in 1..Len(evs) |-> event_gradient(dp, evs[Len(evs) + 1 - e])]

calculate_event_gradients(dp, evs) ==
    IF dp = <<>>
    THEN <<>>
    ELSE [e \in 1..Len(evs) |-> event_gradient(dp, evs[e])]

\* ------------------------------------ calculate_last_2day_usage_gradient
\* line 119: timedelta(days=2) in minutes
WindowMinutes == 2880

\* line 121: the readings kept are those not earlier than the period start
in_usage_period(p, start_time_period) == Time(p) >= start_time_period

\* lines 118-121: the readings of the last two days before the last reading
usage_points_of(dp) ==
    LET end_time == Time(dp[Len(dp)])
        start_time_period == end_time - WindowMinutes
        kept(p) == in_usage_period(p, start_time_period)
    IN  SelectSeq(dp, kept)

\* line 126: a pair counts when its time difference is strictly positive
usage_duration_valid_always(time_diff_hours) == TRUE

usage_duration_valid(time_diff_hours) == FSign(time_diff_hours) > 0

\* lines 124-129: the non-positive gradients of the consecutive pairs from
\* i on; a division by zero ends the loop with the exception
RECURSIVE usage_gradients_from(_, _)
usage_gradients_from(up, i) ==
    IF i > Len(up) - 1
    THEN <<>>
    ELSE LET time_diff_hours == hours_between(Time(up[i]), Time(up[i + 1]))
             value_diff == Value(up[i + 1]) - Value(up[i])
             rest == usage_gradients_from(up, i + 1)
         IN  IF usage_duration_valid(time_diff_hours)
             THEN LET gradient == FDiv(FromInt(value_diff), time_diff_hours)
                  IN  IF gradient = ZeroDivisionError
                      THEN <<ZeroDivisionError>>
                      ELSE IF FSign(gradient) <= 0
                           THEN <<gradient>> \o rest
                           ELSE rest
             ELSE rest

calculate_last_2day_usage_gradient(dp) ==
    IF Len(dp) < 2
    THEN FromInt(0)
    ELSE LET usage_gradients == usage_gradients_from(usage_points_of(dp), 1)
         IN  IF usage_gradients # <<>>
             THEN np_mean(usage_gradients)
             ELSE FromInt(0)

\* ---------------------------------------------------------------- plotting
\* the trace of the readings every figure starts with
battery_trace(dp, name) ==
    [name |-> name,
     x |-> [i \in 1..Len(dp) |-> Time(dp[i])],
     y |-> [i \in 1..Len(dp) |-> Value(dp[i])]]

\* the straight line between two readings
line_trace(name, a, b) ==
    [name |-> name, x |-> <<Time(a), Time(b)>>, y |-> <<Value(a), Value(b)>>]

\* the shaded rectangle of every event
event_shapes(evs) ==
    [e \in 1..Len(evs) |->
        [x0 |-> evs[e].start_time, x1 |-> evs[e].end_time,
         fillcolor |-> evs[e].color, annotation_text |-> evs[e].label]]

\* src/plotting.py, create_segment_plot
create_segment_plot(dp, segments, evs) ==
    [title |-> "Battery Usage with Segments",
     traces |-> <<battery_trace(dp, "Battery Level")>> \o
                [k \in 1..Len(segments) |->
                    line_trace("Segment Trend", segments[k].start, segments[k].end)],
     shapes |-> event_shapes(evs)]

\* src/plotting.py, create_event_gradient_plot
create_event_gradient_plot(dp, egs, evs) ==
    [title |-> "Battery Usage with Event Gradients",
     traces |-> <<battery_trace(dp, "Battery Level")>> \o
                [e \in 1..Len(egs) |->
                    line_trace(egs[e].label, egs[e].start_point, egs[e].end_point)],
     shapes |-> event_shapes(evs)]

\* src/plotting.py lines 120 and 140: a candidate gives a prediction when
\* it is strictly negative
prediction_due_nonzero(pred_gradient) == FSign(pred_gradient) # 0

prediction_due(pred_gradient) == FSign(pred_gradient) < 0

\* lines 121-122 and 128-130: the hours left and the line from the last
\* reading to level 0 at the drain time; times are minutes, as fractions
drain_prediction(name, last_point, pred_gradient) ==
    LET last_time == Time(last_point)
        last_value == Value(last_point)
        time_to_drain_hours == FDiv(FromInt(-last_value), pred_gradient)
        drain_time == FAdd(FromInt(last_time), FMul(FromInt(60), time_to_drain_hours))
    IN  [name |-> name,
         time_to_drain_hours |-> time_to_drain_hours,
         x |-> <<FromInt(last_time), drain_time>>,
         y |-> <<last_value, 0>>]

\* lines 116-158: the prediction lines of the two candidates
prediction_lines_nested(dp, pred_gradient_1_, pred_gradient_2_) ==
    LET last_point == dp[Len(dp)]
    IN  IF prediction_due(pred_gradient_1_)
        THEN <<drain_prediction("Current Trend Prediction", last_point,
                                pred_gradient_1_)>>
             \o
             (IF prediction_due(pred_gradient_2_)
              THEN <<drain_prediction("Last 2-Day Usage Prediction", last_point,
                                      pred_gradient_2_)>>
              ELSE <<>>)
        ELSE <<>>

prediction_lines(dp, pred_gradient_1_, pred_gradient_2_) ==
    LET last_point == dp[Len(dp)]
    IN  (IF prediction_due(pred_gradient_1_)
         THEN <<drain_prediction("Current Trend Prediction", last_point,
                                 pred_gradient_1_)>>
         ELSE <<>>)
        \o
        (IF prediction_due(pred_gradient_2_)
         THEN <<drain_prediction("Last 2-Day Usage Prediction", last_point,
                                 pred_gradient_2_)>>
         ELSE <<>>)

\* src/plotting.py, create_prediction_plot for a non-empty list of readings
create_prediction_plot(dp, pred_gradient_1_, pred_gradient_2_) ==
    [title |-> "Battery Drain Predictions",
     traces |-> <<battery_trace(dp, "Actual Battery Level")>> \o
                [l \in 1..Len(prediction_lines(dp, pred_gradient_1_, pred_gradient_2_)) |->
                    [name |-> prediction_lines(dp, pred_gradient_1_, pred_gradient_2_)[l].name,
                     x |-> prediction_lines(dp, pred_gradient_1_, pred_gradient_2_)[l].x,
                     y |-> prediction_lines(dp, pred_gradient_1_, pred_gradient_2_)[l].y]],
     shapes |-> <<>>]

\* ------------------------------------- plotting with staircases (analyzer/)
FAbs(x) == <<Abs(x[1]), x[2]>>

\* analyzer/utils.py lines 21-23: timedelta(hours = 1 / abs(gradient)), in
\* minutes; a gradient of 0 is a division by zero
calculate_percent_duration_of_segment(gradient_percent_by_hours) ==
    FMul(FromInt(60), FDiv(FromInt(1), FAbs(gradient_percent_by_hours)))

\* range(a, b, step) for a step of 1 or -1
range(a, b, step) ==
    IF step > 0
    THEN [i \in 1..(IF b > a THEN b - a ELSE 0) |-> a + (i - 1)]
    ELSE [i \in 1..(IF a > b THEN a - b ELSE 0) |-> a - (i - 1)]

\* analyzer/utils.py lines 26-31; last_value is last_point[1], the only part
\* of last_point that is read
create_staircase_values(name, first_point, last_value, gradient) ==
    LET y_delta == IF FSign(gradient) < 0 THEN -1 ELSE 1
        x_delta == calculate_percent_duration_of_segment(gradient)
        staircase_y == range(Value(first_point), last_value, y_delta)
        staircase_x == [i \in 1..Len(staircase_y) |->
                           FAdd(FromInt(Time(first_point)), FMul(FromInt(i - 1), x_delta))]
    IN  [name |-> name, x |-> staircase_x, y |-> staircase_y]

\* the call raises: line 28 divides before anything is returned
staircase_raises(gradient) ==
    calculate_percent_duration_of_segment(gradient) = ZeroDivisionError

\* analyzer/plotting.py, create_segment_plot: a trend line and a staircase
\* for every segment
analyzer_create_segment_plot(dp, segments, evs) ==
    [title |-> "Battery Usage with Segments",
     traces |-> <<battery_trace(dp, "Actual Battery Level")>> \o
                [j \in 1..(2 * Len(segments)) |->
                    LET segment == segments[(j + 1) \div 2]
                    IN  IF j % 2 = 1
                        THEN line_trace("Segment Trend", segment.start, segment.end)
                        ELSE create_staircase_values("Expected Value (Staircase)",
                                 segment.start, Value(segment.end), segment.avg_gradient)],
     shapes |-> event_shapes(evs)]

segment_plot_raises(segments) ==
    \E k \in 1..Len(segments) : staircase_raises(segments[k].avg_gradient)

\* analyzer/plotting.py, create_event_gradient_plot: a trend line and a
\* staircase for every event gradient
analyzer_create_event_gradient_plot(dp, egs, evs) ==
    [title |-> "Battery Usage with Event Gradients",
     traces |-> <<battery_trace(dp, "Actual Battery Level")>> \o
                [j \in 1..(2 * Len(egs)) |->
                    LET eg == egs[(j + 1) \div 2]
                    IN  IF j % 2 = 1
                        THEN line_trace(eg.label, eg.start_point, eg.end_point)
                        ELSE create_staircase_values("Expected Value (Staircase)",
                                 eg.start_point, Value(eg.end_point), eg.gradient)],
     shapes |-> event_shapes(evs)]

event_gradient_plot_raises(egs) ==
    \E e \in 1..Len(egs) : staircase_raises(egs[e].gradient)

\* analyzer/plotting.py, create_prediction_plot for a non-empty list of
\* readings: a line and a staircase down to level 0 for every negative
\* candidate
analyzer_prediction_traces(name, steps, last_point, pred_gradient) ==
    IF prediction_due(pred_gradient)
    THEN LET line == drain_prediction(name, last_point, pred_gradient)
         IN  <<[name |-> line.name, x |-> line.x, y |-> line.y],
               create_staircase_values(steps, last_point, 0, pred_gradient)>>
    ELSE <<>>

analyzer_create_prediction_plot(dp, pred_gradient_1_, pred_gradient_2_) ==
    [title |-> "Battery Drain Predictions",
     traces |-> <<battery_trace(dp, "Actual Battery Level")>> \o
                analyzer_prediction_traces("Current Trend Prediction",
                    "Current Trend Steps", dp[Len(dp)], pred_gradient_1_) \o
                analyzer_prediction_traces("Last 2-Day Usage Prediction",
                    "Last 2-Day Steps", dp[Len(dp)], pred_gradient_2_),
     shapes |-> <<>>]

\* ------------------------------------------------------------------ inputs
SeqsUpTo(S, n) == UNION {[1..k -> S] : k \in 0..n}

\* readings in timestamp order without duplicate timestamps, as the
\* pipeline assumes them
OrderedInputs ==
    {[i \in 1..Len(vs) |-> <<i - 1, vs[i]>>] : vs \in SeqsUpTo(0..MaxValue, MaxLen)}

\* readings as the loader and the parser deliver them: the order of the
\* rows, timestamps neither sorted nor checked for duplicates
Readings == (0..MaxTime) \X (0..MaxLevel)

TimedInputs == SeqsUpTo(Readings, MaxTimedLen)

Labels == {"Workout"}
Colors == {"blue"}

Event(label, color, start_time, duration_minutes) ==
    [label |-> label, color |-> color, start_time |-> start_time,
     duration |-> duration_minutes,
     end_time |-> start_time + duration_minutes]

\* the duration column is passed to the Event unchecked: it may be
\* negative, zero or positive
Durations == {-1, 0, 1}

Events == {Event(l, c, s, d) : l \in Labels, c \in Colors,
                               s \in 0..MaxTime, d \in Durations}

\* events that differ in label and color, one minute long
Tags == {<<"Workout", "blue">>, <<"Charge", "green">>}

TaggedEvents == {Event(tag[1], tag[2], s, 1) : tag \in Tags, s \in 0..MaxTagStart}

\* readings whole days apart, in any order, and the readings 50, 40, 45, 35
\* one hour apart
UsageValues == {40, 50}
UsageReadings == {<<1440 * d, v>> : d \in 0..MaxDays, v \in UsageValues}
ExampleUsage == <<<<0, 50>>, <<60, 40>>, <<120, 45>>, <<180, 35>>>>
UsageInputs == SeqsUpTo(UsageReadings, MaxUsageLen) \cup {ExampleUsage}

\* a last reading of level 10 at the end of a fall of 5 per hour
ExamplePrediction == <<<<0, 15>>, <<60, 10>>>>
PredictionInputs == UsageInputs \cup {ExamplePrediction}

\* raw text: a date, two numbers and a word as fields; lines of three fields
\* and lines of no, two and four fields
Fields == {"25.8.2025", "1344", "37", "x"}
Lines ==
    [1..3 -> Fields] \cup
    {<<>>, <<"25.8.2025", "1344">>, <<"25.8.2025", "1344", "37", "x">>}
RawTexts == SeqsUpTo(Lines, MaxLines)

\* lines 28-46 of the loader: an Event for every row of the 'Events' sheet
events_data_of(event_rows) ==
    [i \in 1..Len(event_rows) |->
        Event(event_rows[i][1], event_rows[i][2],
              to_datetime(event_rows[i][3], event_rows[i][4]), event_rows[i][5])]

load_data_from_excel(path, wb) ==
    IF load_error(path, wb) = "none"
    THEN [value |-> "dict", keys |-> {"battery_data", "events_data"},
          battery_data |-> battery_data_of(wb.rows),
          events_data |-> events_data_of(wb.event_rows)]
    ELSE loader_failure(IF path \in {"None", "missing.xlsx"} \/ data_sheet_raises(wb)
                        THEN <<>>
                        ELSE battery_data_of(wb.rows))

\* workbooks: rows with a date or none, a time on the hour or a bad one and
\* a level; no event row, a good one or one with a bad time
DataRows == {EmptyCell, 0} \X {BadTime, 0, 60} \X {40, 50}
EventRows == {<<"Workout", "blue", 0, 0, 60>>, <<"Workout", "blue", 0, BadTime, 60>>}
Workbooks ==
    [data_sheet : {"present", "missing"},
     rows : SeqsUpTo(DataRows, MaxRows),
     events_sheet : {"present", "missing"},
     event_rows : {<<>>} \cup {<<row>> : row \in EventRows}]

\* what the file dialog returns: nothing, a file that exists, one that is gone
Paths == {"None", "battery.xlsx", "missing.xlsx"}

\* ------------------------------------------------- segmenter properties
Segmented == pc # "loaded"

\* index in data_points of the first and last reading of segment k, when
\* each segment shares its first reading with the segment before it
RECURSIVE SegFirstIndex(_, _)
SegFirstIndex(segs, k) ==
    IF k = 1 THEN 1 ELSE SegFirstIndex(segs, k - 1) + Len(segs[k - 1]) - 1

SegLastIndex(segs, k) == SegFirstIndex(segs, k) + Len(segs[k]) - 1

\* the segments that hold the reading of index i
SegmentsOf(segs, i) ==
    {k \in 1..Len(segs) : SegFirstIndex(segs, k) <= i /\ i <= SegLastIndex(segs, k)}

\* the indices at which a segment ends and the next one starts
Boundaries(segs) == {SegLastIndex(segs, k) : k \in 1..(Len(segs) - 1)}

Rises(seg) == \E j \in 1..(Len(seg) - 1) : Value(seg[j + 1]) > Value(seg[j])
Falls(seg) == \E j \in 1..(Len(seg) - 1) : Value(seg[j + 1]) < Value(seg[j])

StrictReversals(dp) ==
    {i \in 2..(Len(dp) - 1) :
        \/ Value(dp[i]) > Value(dp[i - 1]) /\ Value(dp[i]) > Value(dp[i + 1])
        \/ Value(dp[i]) < Value(dp[i - 1]) /\ Value(dp[i]) < Value(dp[i + 1])}

StrictlyMonotonic(dp) ==
    \/ \A j \in 1..(Len(dp) - 1) : Value(dp[j + 1]) > Value(dp[j])
    \/ \A j \in 1..(Len(dp) - 1) : Value(dp[j + 1]) < Value(dp[j])

\* the maximal runs a..b (a < b) of consecutive readings of equal value
FlatRuns(dp) ==
    {r \in (1..Len(dp)) \X (1..Len(dp)) :
        /\ r[1] < r[2]
        /\ \A j \in r[1]..r[2] : Value(dp[j]) = Value(dp[r[1]])
        /\ r[1] > 1 => Value(dp[r[1] - 1]) # Value(dp[r[1]])
        /\ r[2] < Len(dp) => Value(dp[r[2] + 1]) # Value(dp[r[2]])}

\* C1: for n >= 2 the result is non-empty, segment k is the slice of the
\* input from its first to its last index, the last index of a segment is
\* the first index of the next one, the slices run from the first to the
\* last input reading, and so every reading lies in exactly one segment
\* except the boundaries, which lie in exactly two adjacent ones.
C1_SegmentsReconstructInput ==
    (Segmented /\ Len(data_points) >= 2) =>
        /\ Len(raw_segments) >= 1
        /\ \A k \in 1..Len(raw_segments) :
              /\ SegLastIndex(raw_segments, k) <= Len(data_points)
              /\ \A m \in 1..Len(raw_segments[k]) :
                    raw_segments[k][m] =
                        data_points[SegFirstIndex(raw_segments, k) + m - 1]
        /\ SegLastIndex(raw_segments, Len(raw_segments)) = Len(data_points)
        /\ \A i \in 1..Len(data_points) :
              LET ks == SegmentsOf(raw_segments, i)
              IN  IF i \in Boundaries(raw_segments)
                  THEN \E k \in 1..(Len(raw_segments) - 1) : ks = {k, k + 1}
                  ELSE Cardinality(ks) = 1

C1_Witness ==
    /\ Segmented
    /\ Len(data_points) = MaxLen
    /\ Len(raw_segments) >= 2
    /\ \E i \in 1..Len(data_points) : i \notin Boundaries(raw_segments)

\* C2: no returned segment holds both a rising and a falling pair of
\* consecutive readings.
C2_SegmentSlopeSignConstant ==
    Segmented =>
        \A k \in 1..Len(raw_segments) :
            ~(Rises(raw_segments[k]) /\ Falls(raw_segments[k]))

\* no two consecutive readings have the same value
NoRepeatedValue(dp) == \A j \in 1..(Len(dp) - 1) : Value(dp[j + 1]) # Value(dp[j])

\* the sign of end.value - start.value of a segment
Direction(seg) == Sign(Value(seg[Len(seg)]) - Value(seg[1]))

\* C21: for n >= 2 readings without two consecutive equal values, every
\* segment is strictly rising or strictly falling over at least two
\* readings, and adjacent segments have opposite directions, so that the
\* signs of end.value - start.value alternate along the segment list.
C21_SegmentsAlternate ==
    (Segmented /\ Len(data_points) >= 2 /\ NoRepeatedValue(data_points)) =>
        /\ \A k \in 1..Len(raw_segments) :
              /\ Len(raw_segments[k]) >= 2
              /\ StrictlyMonotonic(raw_segments[k])
              /\ Direction(raw_segments[k]) # 0
        /\ \A k \in 1..(Len(raw_segments) - 1) :
              Direction(raw_segments[k + 1]) = -Direction(raw_segments[k])

\* a rise over three readings, then a fall, then a rise
C21_Witness ==
    /\ Segmented
    /\ Len(data_points) = MaxLen
    /\ NoRepeatedValue(data_points)
    /\ Len(raw_segments) = 3
    /\ Len(raw_segments[1]) = 3
    /\ Direction(raw_segments[1]) = 1
    /\ Direction(raw_segments[2]) = -1
    /\ Direction(raw_segments[3]) = 1

\* C3: for n >= 2 a segment ends at interior index i exactly when reading i
\* is strictly above or strictly below both neighbours, the number of
\* segments is one more than the number of such readings, a strictly
\* monotonic input gives one segment holding the whole input, and an input
\* with exactly one such reading gives two segments that share it.
C3_SplitExactlyAtStrictReversal ==
    (Segmented /\ Len(data_points) >= 2) =>
        /\ Boundaries(raw_segments) = StrictReversals(data_points)
        /\ Len(raw_segments) = 1 + Cardinality(StrictReversals(data_points))
        /\ StrictlyMonotonic(data_points) => raw_segments = <<data_points>>
        /\ \A i \in StrictReversals(data_points) :
              StrictReversals(data_points) = {i} =>
                  /\ Len(raw_segments) = 2
                  /\ raw_segments[1][Len(raw_segments[1])] = data_points[i]
                  /\ raw_segments[2][1] = data_points[i]
                  /\ SegmentsOf(raw_segments, i) = {1, 2}

C3_Witness ==
    /\ Segmented
    /\ Len(data_points) >= 4
    /\ Cardinality(StrictReversals(data_points)) = 1
    /\ Len(raw_segments) = 2

\* C4: an input of fewer than 2 readings gives no segment.
C4_ShortInputNoSegments ==
    (Segmented /\ Len(data_points) < 2) => raw_segments = <<>>

C4_Witness ==
    Segmented /\ Len(data_points) = 1 /\ raw_segments = <<>>

\* C5: an interior reading with a zero delta on either side is never a
\* segment boundary, and every flat run lies in one segment which, when
\* the run has a bordering reading, holds a bordering reading too.
C5_ZeroDeltaNeverSplits ==
    (Segmented /\ Len(data_points) >= 2) =>
        /\ \A i \in 2..(Len(data_points) - 1) :
              (\/ Value(data_points[i]) = Value(data_points[i - 1])
               \/ Value(data_points[i + 1]) = Value(data_points[i]))
                  => i \notin Boundaries(raw_segments)
        /\ \A r \in FlatRuns(data_points) :
              \E k \in 1..Len(raw_segments) :
                  LET a == SegFirstIndex(raw_segments, k)
                      b == SegLastIndex(raw_segments, k)
                  IN  /\ a <= r[1]
                      /\ r[2] <= b
                      /\ (r[1] > 1 \/ r[2] < Len(data_points)) =>
                            \/ r[1] > 1 /\ a <= r[1] - 1
                            \/ r[2] < Len(data_points) /\ r[2] + 1 <= b

C5_Witness ==
    /\ Segmented
    /\ Len(raw_segments) >= 2
    /\ \E r \in FlatRuns(data_points) : r[1] > 1
    /\ \E i \in 2..(Len(data_points) - 1) :
          \/ Value(data_points[i]) = Value(data_points[i - 1])
          \/ Value(data_points[i + 1]) = Value(data_points[i])

\* C6: every returned segment has at least 2 readings.
C6_SegmentHasTwoReadings ==
    Segmented => \A k \in 1..Len(raw_segments) : Len(raw_segments[k]) >= 2

C6_Witness ==
    Segmented /\ Len(raw_segments) >= 2 /\ Len(data_points) = 3

\* --------------------------------------------- segment metric properties
Measured == pc \in {"measured", "aligned"}

Span(a, b) == Time(b) - Time(a)
Change(a, b) == Value(b) - Value(a)

\* g is the quotient of the value change by the hours from a to b
IsQuotient(g, a, b) == g[1] * Span(a, b) = 60 * Change(a, b) * g[2]

\* the consecutive pairs of a segment whose time difference is positive
ValidPairs(seg) ==
    {i \in 1..(Len(seg) - 1) : Time(seg[i + 1]) > Time(seg[i])}

PairGradient(seg, i) ==
    Frac(60 * (Value(seg[i + 1]) - Value(seg[i])), Time(seg[i + 1]) - Time(seg[i]))

\* the sum over the valid pairs among the first n pairs of the gradient,
\* or of its square
RECURSIVE PairSum(_, _, _)
PairSum(seg, n, squared) ==
    IF n = 0
    THEN FromInt(0)
    ELSE IF n \in ValidPairs(seg)
         THEN FAdd(PairSum(seg, n - 1, squared),
                   IF squared
                   THEN FMul(PairGradient(seg, n), PairGradient(seg, n))
                   ELSE PairGradient(seg, n))
         ELSE PairSum(seg, n - 1, squared)

\* the population variance of the gradients of the valid pairs, as the
\* mean of the squares minus the square of the mean
PairVariance(seg) ==
    LET n == FromInt(Cardinality(ValidPairs(seg)))
        mean == FDiv(PairSum(seg, Len(seg) - 1, FALSE), n)
    IN  FSub(FDiv(PairSum(seg, Len(seg) - 1, TRUE), n), FMul(mean, mean))

\* C7: each record reports the first and the last reading of its segment
\* and avg_gradient = value change / hours between them, or 0 for a span of
\* zero hours; for a strictly positive span the sign of avg_gradient is the
\* sign of the value change.
C7_AvgGradientOfSegment ==
    Measured =>
        /\ Len(processed_segments) = Len(raw_segments)
        /\ \A k \in 1..Len(processed_segments) :
              LET m == processed_segments[k]
                  first == raw_segments[k][1]
                  last == raw_segments[k][Len(raw_segments[k])]
              IN  /\ m.start = first
                  /\ m.end = last
                  /\ IF Span(first, last) = 0
                     THEN m.avg_gradient = FromInt(0)
                     ELSE IsQuotient(m.avg_gradient, first, last)
                  /\ Span(first, last) > 0 =>
                        FSign(m.avg_gradient) = Sign(Change(first, last))

C7_Witness ==
    /\ Measured
    /\ \E k \in 1..Len(processed_segments) :
          /\ Span(processed_segments[k].start, processed_segments[k].end) > 0
          /\ Change(processed_segments[k].start, processed_segments[k].end) < 0
          /\ FSign(processed_segments[k].avg_gradient) = -1
    /\ \E k \in 1..Len(processed_segments) :
          /\ Span(processed_segments[k].start, processed_segments[k].end) = 0
          /\ Change(processed_segments[k].start, processed_segments[k].end) # 0

\* C8: the variability of a record (kept as its square) is the population
\* variance of the gradients of the consecutive pairs of the segment whose
\* time difference is strictly positive; it is never negative, it is 0 when
\* no pair qualifies and 0 for a segment of exactly 2 readings.
C8_VariabilityOfSegment ==
    Measured =>
        /\ Len(processed_segments) = Len(raw_segments)
        /\ \A k \in 1..Len(processed_segments) :
              LET v == processed_segments[k].variability
                  seg == raw_segments[k]
              IN  /\ FSign(v) >= 0
                  /\ ValidPairs(seg) = {} => v = FromInt(0)
                  /\ ValidPairs(seg) # {} => v = PairVariance(seg)
                  /\ Len(seg) = 2 => v = FromInt(0)

C8_Witness ==
    /\ Measured
    /\ \E k \in 1..Len(processed_segments) :
          /\ Len(raw_segments[k]) >= 3
          /\ Cardinality(ValidPairs(raw_segments[k])) >= 2
          /\ Cardinality(ValidPairs(raw_segments[k])) < Len(raw_segments[k]) - 1
          /\ FSign(processed_segments[k].variability) = 1

\* ---------------------------------------------- event aligner properties
Aligned == pc = "aligned"

Distance(p, t) == Abs(Time(p) - t)

\* the indices of the readings at minimal distance from time t
Nearest(dp, t) ==
    {i \in 1..Len(dp) : \A j \in 1..Len(dp) : Distance(dp[i], t) <= Distance(dp[j], t)}

LowestNearest(dp, t) ==
    CHOOSE i \in Nearest(dp, t) : \A j \in Nearest(dp, t) : i <= j

\* readings at minutes 0, 10, ..., 100 and an event that starts at minute 24
ExampleReadings == [i \in 1..11 |-> <<10 * (i - 1), 100 - i>>]
ExampleEvent == Event("Workout", "blue", 24, 30)

\* C9: with at least one reading, the matched start (end) reading of every
\* event is the reading of lowest index among those at minimal distance
\* from the event's start (end) time; an event starting at minute 24 over
\* readings at minutes 0, 10, ..., 100 matches the reading at minute 20.
C9_ClosestReadingFirstMinimum ==
    (Aligned /\ data_points # <<>>) =>
        /\ Len(event_gradients) = Len(events)
        /\ \A e \in 1..Len(event_gradients) :
              /\ event_gradients[e].start_point =
                     data_points[LowestNearest(data_points, events[e].start_time)]
              /\ event_gradients[e].end_point =
                     data_points[LowestNearest(data_points, events[e].end_time)]
              /\ (data_points = ExampleReadings /\ events[e].start_time = 24) =>
                     Time(event_gradients[e].start_point) = 20

C9_Witness ==
    /\ Aligned
    /\ \E e \in 1..Len(event_gradients) :
          \E i, j \in Nearest(data_points, events[e].start_time) :
              /\ i < j
              /\ data_points[i] # data_points[j]
              /\ event_gradients[e].start_point = data_points[i]

\* C10: the gradient of an event is the value change divided by the hours
\* between the matched readings when the matched end is strictly later than
\* the matched start, and 0 otherwise; a segment whose end readings are the
\* same pair with a negative span reports the quotient instead.
C10_EventGradientNonPositiveSpanZero ==
    Aligned =>
        /\ \A e \in 1..Len(event_gradients) :
              LET g == event_gradients[e]
              IN  IF Span(g.start_point, g.end_point) > 0
                  THEN IsQuotient(g.gradient, g.start_point, g.end_point)
                  ELSE g.gradient = FromInt(0)
        /\ \A e \in 1..Len(event_gradients) :
              \A k \in 1..Len(processed_segments) :
                  LET g == event_gradients[e]
                      m == processed_segments[k]
                  IN  (/\ m.start = g.start_point
                       /\ m.end = g.end_point
                       /\ Span(m.start, m.end) < 0) =>
                          /\ g.gradient = FromInt(0)
                          /\ IsQuotient(m.avg_gradient, m.start, m.end)
                          /\ Change(m.start, m.end) # 0 =>
                                m.avg_gradient # FromInt(0)

C10_Witness ==
    /\ Aligned
    /\ \E e \in 1..Len(event_gradients) :
          \E k \in 1..Len(processed_segments) :
              /\ processed_segments[k].start = event_gradients[e].start_point
              /\ processed_segments[k].end = event_gradients[e].end_point
              /\ Span(processed_segments[k].start, processed_segments[k].end) < 0
              /\ processed_segments[k].avg_gradient # FromInt(0)
              /\ event_gradients[e].gradient = FromInt(0)

\* C11: with no reading there is no event gradient whatever the events;
\* with a reading there is one record per event, in the order of the event
\* list, each with the label and the color of its event, and the record of
\* an event is the one the function returns for that event alone.
C11_OneRecordPerEvent ==
    Aligned =>
        /\ data_points = <<>> => event_gradients = <<>>
        /\ data_points # <<>> =>
              /\ Len(event_gradients) = Len(events)
              /\ \A e \in 1..Len(event_gradients) :
                    /\ event_gradients[e].label = events[e].label
                    /\ event_gradients[e].color = events[e].color
                    /\ <<event_gradients[e]>> =
                           calculate_event_gradients(data_points, <<events[e]>>)

C11_Witness ==
    /\ Aligned
    /\ Len(events) = 2
    /\ Len(event_gradients) = 2
    /\ events[1].label # events[2].label
    /\ event_gradients[1].start_point # event_gradients[2].start_point
    /\ event_gradients[1].gradient # event_gradients[2].gradient

\* ---------------------------------------------- usage estimator properties
Estimated == pc = "estimated"

LastTime == Time(data_points[Len(data_points)])

\* the window [last_reading.time - 48h, last_reading.time], both ends included
InWindow(p) == LastTime - WindowMinutes <= Time(p) /\ Time(p) <= LastTime

WindowReadings == IF Len(data_points) < 2 THEN <<>> ELSE SelectSeq(data_points, InWindow)

\* the consecutive pairs with a positive time difference and a gradient <= 0
RetainedPairs(seq) == {i \in ValidPairs(seq) : PairGradient(seq, i)[1] <= 0}

RECURSIVE RetainedSum(_, _)
RetainedSum(seq, n) ==
    IF n = 0
    THEN FromInt(0)
    ELSE IF n \in RetainedPairs(seq)
         THEN FAdd(RetainedSum(seq, n - 1), PairGradient(seq, n))
         ELSE RetainedSum(seq, n - 1)

RetainedMean(seq) ==
    IF RetainedPairs(seq) = {}
    THEN FromInt(0)
    ELSE FDiv(RetainedSum(seq, Len(seq) - 1), FromInt(Cardinality(RetainedPairs(seq))))

\* C12: the usage gradient is the mean of the gradients of the consecutive
\* pairs of readings of the window that have a positive time difference and
\* a gradient <= 0, it is 0 when no pair qualifies or there are fewer than 2
\* readings, and it is never positive; 50, 40, 45, 35 one hour apart give -10.
C12_UsageGradientIsRetainedMean ==
    Estimated =>
        /\ pred_gradient_2 = RetainedMean(WindowReadings)
        /\ FSign(pred_gradient_2) <= 0
        /\ data_points = ExampleUsage => pred_gradient_2 = FromInt(-10)

\* C13: a reading takes part in a retained pair only if its timestamp lies in
\* [last.time - 48h, last.time], last being the final reading of the input.
C13_WindowBothEndsInclusive ==
    Estimated =>
        \A i \in RetainedPairs(usage_points) :
            InWindow(usage_points[i]) /\ InWindow(usage_points[i + 1])

\* --------------------------------------------- drain predictor properties
Predicted == pc = "prediction_plot"

LastPoint == data_points[Len(data_points)]

Candidate(name) ==
    IF name = "Current Trend Prediction" THEN pred_gradient_1 ELSE pred_gradient_2

CandidateNames == {"Current Trend Prediction", "Last 2-Day Usage Prediction"}

LinesOf(name) == {l \in 1..Len(predictions) : predictions[l].name = name}

\* C14: a candidate gradient g gives a prediction if and only if g < 0; the
\* prediction has hours_to_drain * (-g) = last value, its line runs from
\* (last_time, value) to (last_time + hours_to_drain, 0); a last value of 10
\* with g = -5 gives 2 hours.
C14_DrainPrediction ==
    Predicted =>
        /\ \A name \in CandidateNames :
              /\ LinesOf(name) # {} <=> FSign(Candidate(name)) < 0
              /\ \A l \in LinesOf(name) :
                    LET hours_to_drain == predictions[l].time_to_drain_hours
                        g == Candidate(name)
                    IN  /\ hours_to_drain[1] * (-g[1]) =
                              Value(LastPoint) * hours_to_drain[2] * g[2]
                        /\ predictions[l].x[1] = FromInt(Time(LastPoint))
                        /\ predictions[l].x[2] =
                              Frac(Time(LastPoint) * hours_to_drain[2] + 60 * hours_to_drain[1],
                                   hours_to_drain[2])
                        /\ predictions[l].y = <<Value(LastPoint), 0>>
        /\ data_points = ExamplePrediction =>
              /\ pred_gradient_1 = FromInt(-5)
              /\ predictions[1].time_to_drain_hours = FromInt(2)
              /\ predictions[1].x = <<FromInt(60), FromInt(180)>>

C14_Witness ==
    /\ Predicted
    /\ data_points = ExamplePrediction
    /\ Len(predictions) = 2

C14_WitnessNone ==
    /\ Predicted
    /\ FSign(pred_gradient_1) > 0
    /\ FSign(pred_gradient_2) = 0
    /\ predictions = <<>>

NegativeCandidates == {name \in CandidateNames : FSign(Candidate(name)) < 0}

\* C15: the two candidates are the avg_gradient of the last segment (0
\* without segments) and the usage gradient; there are as many prediction
\* lines as strictly negative candidates, one for each of them whatever the
\* other candidate is.
C15_TwoIndependentCandidates ==
    Predicted =>
        /\ pred_gradient_1 =
              IF processed_segments = <<>>
              THEN FromInt(0)
              ELSE processed_segments[Len(processed_segments)].avg_gradient
        /\ pred_gradient_2 = calculate_last_2day_usage_gradient(data_points)
        /\ Len(predictions) = Cardinality(NegativeCandidates)
        /\ \A name \in CandidateNames :
              Cardinality(LinesOf(name)) = IF name \in NegativeCandidates THEN 1 ELSE 0

\* only the usage gradient is negative: one line, the second candidate's
C15_Witness ==
    /\ Predicted
    /\ FSign(pred_gradient_1) > 0
    /\ FSign(pred_gradient_2) < 0
    /\ Len(predictions) = 1
    /\ predictions[1].name = "Last 2-Day Usage Prediction"

C15_WitnessFirstOnly ==
    /\ Predicted
    /\ FSign(pred_gradient_1) < 0
    /\ FSign(pred_gradient_2) = 0
    /\ Len(predictions) = 1

\* C16: with fewer than 2 readings no step fails and every result is empty
\* or zero: no segments, no metrics, both candidate gradients 0 and no
\* prediction.
C16_ShortInputDegrades ==
    Len(data_points) < 2 =>
        /\ pc # "failed"
        /\ error = "none"
        /\ raw_segments = <<>>
        /\ processed_segments = <<>>
        /\ pred_gradient_1 = FromInt(0)
        /\ pred_gradient_2 = FromInt(0)
        /\ predictions = <<>>

\* ------------------------------------------------- zero-duration spans
\* the consecutive pairs of equal timestamps
ZeroPairs(seq) == {i \in 1..(Len(seq) - 1) : Time(seq[i + 1]) = Time(seq[i])}

\* C17: no step of the analysis ends with a division error; a segment or an
\* event whose start and end readings have the same timestamp has gradient
\* 0, and the variability and the usage gradient are computed over the
\* consecutive pairs with a positive time difference only, so that a pair
\* with time difference zero is left out.
C17_ZeroDurationIsSafe ==
    /\ pc # "failed"
    /\ error = "none"
    /\ \A k \in 1..Len(processed_segments) :
          /\ Span(processed_segments[k].start, processed_segments[k].end) = 0
                => processed_segments[k].avg_gradient = FromInt(0)
          /\ processed_segments[k].variability =
                IF ValidPairs(raw_segments[k]) = {}
                THEN FromInt(0)
                ELSE PairVariance(raw_segments[k])
    /\ \A e \in 1..Len(event_gradients) :
          Span(event_gradients[e].start_point, event_gradients[e].end_point) = 0
             => event_gradients[e].gradient = FromInt(0)
    /\ Estimated => pred_gradient_2 = RetainedMean(usage_points)

\* a segment between two readings of one timestamp and different values, an
\* event matched twice with one reading, and a usage gradient that keeps one
\* pair and leaves out a pair of time difference zero
C17_Witness ==
    /\ Estimated
    /\ \E k \in 1..Len(processed_segments) :
          /\ Span(processed_segments[k].start, processed_segments[k].end) = 0
          /\ Change(processed_segments[k].start, processed_segments[k].end) # 0
    /\ \E e \in 1..Len(event_gradients) :
          event_gradients[e].start_point = event_gradients[e].end_point
    /\ \E i \in ZeroPairs(usage_points) : Change(usage_points[i], usage_points[i + 1]) # 0
    /\ RetainedPairs(usage_points) # {}

\* ------------------------------------------------------ parser properties
Parsed == pc = "loaded"

\* three fields: a date, a time and an integer
WellFormed(line) ==
    Len(line) = 3 /\ is_date(line[1]) /\ is_time(line[2]) /\ is_int(line[3])

ReadingOf(line) == <<strptime(line[1], line[2]), int(line[3])>>

Malformed(line) == ~WellFormed(line)

RECURSIVE ReadingsOf(_)
ReadingsOf(lines) ==
    IF lines = <<>>
    THEN <<>>
    ELSE (IF WellFormed(lines[1]) THEN <<ReadingOf(lines[1])>> ELSE <<>>)
         \o ReadingsOf(Tail(lines))

\* the lines from the first to the last line that has a field
Body(lines) ==
    LET filled == {i \in 1..Len(lines) : lines[i] # <<>>}
    IN  IF filled = {}
        THEN <<>>
        ELSE SubSeq(lines,
                    CHOOSE i \in filled : \A j \in filled : i <= j,
                    CHOOSE i \in filled : \A j \in filled : i >= j)

C20_StaircaseNeverDividesByZero ==
    error # "ZeroDivisionError"

\* ------------------------------------------------------ loader properties
\* the readings and the events of all the rows of the workbook
AllReadings ==
    [i \in 1..Len(workbook.rows) |->
        <<1440 * Dates(workbook.rows)[i] + workbook.rows[i][2], workbook.rows[i][3]>>]

AllEvents ==
    [i \in 1..Len(workbook.event_rows) |->
        LET row == workbook.event_rows[i]
        IN  [label |-> row[1], color |-> row[2], start_time |-> 1440 * row[3] + row[4],
             duration |-> row[5], end_time |-> 1440 * row[3] + row[4] + row[5]]]

AnalysisUntouched ==
    /\ data_points = <<>>
    /\ events = <<>>
    /\ raw_segments = <<>>
    /\ processed_segments = <<>>
    /\ event_gradients = <<>>
    /\ usage_points = <<>>
    /\ predictions = <<>>
    /\ figures = <<>>

\* C19: the loader returns a dictionary with the readings of all the rows
\* and the events of all the rows, or None, never a dictionary with a part
\* of them; after None (no file selected, missing file, unreadable sheet,
\* error in a row) main() has stopped or is about to, without having run an
\* analysis function or made a figure.
C19_LoaderAllOrNothing ==
    /\ excel_data.value \in {"unset", "None", "dict"}
    /\ excel_data.value = "dict" =>
          /\ excel_data.keys = {"battery_data", "events_data"}
          /\ excel_data.battery_data = AllReadings
          /\ excel_data.events_data = AllEvents
    /\ excel_data.value = "None" =>
          /\ pc \in {"read", "exited"}
          /\ AnalysisUntouched
    /\ (file_path \in {"None", "missing.xlsx"} /\ pc \notin {"start", "selected"}) =>
          excel_data.value = "None"

\* the readings were built, the events failed, and main() has returned
C19_Witness ==
    /\ pc = "exited"
    /\ file_path = "battery.xlsx"
    /\ workbook.data_sheet = "present"
    /\ Len(workbook.rows) = 2
    /\ ~data_sheet_raises(workbook)
    /\ events_sheet_raises(workbook)
    /\ excel_data = None

C19_WitnessShown ==
    /\ pc = "shown"
    /\ excel_data.value = "dict"
    /\ Len(events) = 1
    /\ Len(figures) = 3

\* ------------------------------------------------------------------- main
\* nothing computed yet
Blank ==
    /\ events = <<>>
    /\ raw_segments = <<>>
    /\ processed_segments = <<>>
    /\ event_gradients = <<>>
    /\ usage_points = <<>>
    /\ pred_gradient_1 = FromInt(0)
    /\ pred_gradient_2 = FromInt(0)
    /\ predictions = <<>>
    /\ figures = <<>>
    /\ error = "none"
    /\ diagnostics = <<>>

\* the readings are at hand, whichever source delivered them
Loaded(inputs) ==
    /\ data_points \in inputs
    /\ Blank
    /\ raw_data = <<>>
    /\ NoFile
    /\ pc = "loaded"

Init == Loaded(SeqsUpTo(Readings, MaxAlignLen) \cup {ExampleReadings})

InitSegments == Loaded(OrderedInputs)

InitMetrics == Loaded(TimedInputs)

CalculateSegments ==
    /\ pc = "loaded"
    /\ raw_segments' = calculate_segments(data_points)
    /\ pc' = "segmented"
    /\ UNCHANGED <<data_points, events, processed_segments, event_gradients,
                   laterVars, error, sourceVars>>

\* a division by zero inside the function ends the run with the exception
CalculateSegmentMetrics ==
    /\ pc = "segmented"
    /\ LET result == calculate_segment_metrics(raw_segments)
       IN  IF \E k \in 1..Len(result) :
                 ZeroDivisionError \in {result[k].avg_gradient, result[k].variability}
           THEN /\ pc' = "failed"
                /\ error' = "ZeroDivisionError"
                /\ UNCHANGED processed_segments
           ELSE /\ pc' = "measured"
                /\ processed_segments' = result
                /\ UNCHANGED error
    /\ UNCHANGED <<data_points, events, raw_segments, event_gradients,
                   laterVars, sourceVars>>

\* the event list is an input of this step: it is drawn here, where it is
\* first used
AlignEvents(lists) ==
    /\ pc = "measured"
    /\ \E evs \in lists :
          LET result == calculate_event_gradients(data_points, evs)
          IN  /\ events' = evs
              /\ IF \E e \in 1..Len(result) : result[e].gradient = ZeroDivisionError
                 THEN /\ pc' = "failed"
                      /\ error' = "ZeroDivisionError"
                      /\ UNCHANGED event_gradients
                 ELSE /\ pc' = "aligned"
                      /\ event_gradients' = result
                      /\ UNCHANGED error
    /\ UNCHANGED <<data_points, raw_segments, processed_segments,
                   laterVars, sourceVars>>

CalculateEventGradients ==
    AlignEvents(SeqsUpTo(Events, MaxEvents) \cup {<<ExampleEvent>>})

Next ==
    \/ CalculateSegments
    \/ CalculateSegmentMetrics
    \/ CalculateEventGradients

\* the whole pipeline
Spec == Init /\ [][Next]_vars

\* lines 52-53 of main(): the two candidate gradients of the prediction
CalculatePredictionGradients ==
    /\ pc = "aligned"
    /\ LET result == calculate_last_2day_usage_gradient(data_points)
       IN  IF result = ZeroDivisionError
           THEN /\ pc' = "failed"
                /\ error' = "ZeroDivisionError"
                /\ UNCHANGED <<usage_points, pred_gradient_1, pred_gradient_2>>
           ELSE /\ pc' = "estimated"
                /\ pred_gradient_1' =
                      IF processed_segments # <<>>
                      THEN processed_segments[Len(processed_segments)].avg_gradient
                      ELSE FromInt(0)
                /\ usage_points' = IF Len(data_points) < 2
                                   THEN <<>>
                                   ELSE usage_points_of(data_points)
                /\ pred_gradient_2' = result
                /\ UNCHANGED error
    /\ UNCHANGED <<data_points, events, raw_segments, processed_segments,
                   event_gradients, predictions, figures, sourceVars>>

\* the pipeline without events up to the candidate gradients, over readings
\* days apart
CalculateEventGradientsNone == AlignEvents({<<>>})

NextUsage ==
    \/ CalculateSegments
    \/ CalculateSegmentMetrics
    \/ CalculateEventGradientsNone
    \/ CalculatePredictionGradients

SpecUsage == Loaded(UsageInputs) /\ [][NextUsage]_vars

\* line 56 of main(), with create_segment_plot of src/plotting.py
CreateSegmentPlot ==
    /\ pc = "estimated"
    /\ pc' = "segment_plot"
    /\ figures' = Append(figures,
                         create_segment_plot(data_points, processed_segments, events))
    /\ UNCHANGED <<data_points, events, raw_segments, processed_segments,
                   event_gradients, usage_points, pred_gradient_1,
                   pred_gradient_2, predictions, error, sourceVars>>

\* line 57 of main(), with create_event_gradient_plot of src/plotting.py
CreateEventGradientPlot ==
    /\ pc = "segment_plot"
    /\ pc' = "event_plot"
    /\ figures' = Append(figures,
                         create_event_gradient_plot(data_points, event_gradients, events))
    /\ UNCHANGED <<data_points, events, raw_segments, processed_segments,
                   event_gradients, usage_points, pred_gradient_1,
                   pred_gradient_2, predictions, error, sourceVars>>

\* line 58 of main(): data_points[-1] raises IndexError on an empty list
CreatePredictionPlot ==
    /\ pc = "event_plot"
    /\ IF data_points = <<>>
       THEN /\ pc' = "failed"
            /\ error' = "IndexError"
            /\ UNCHANGED <<predictions, figures>>
       ELSE /\ pc' = "prediction_plot"
            /\ predictions' =
                  prediction_lines(data_points, pred_gradient_1, pred_gradient_2)
            /\ figures' = Append(figures,
                  create_prediction_plot(data_points, pred_gradient_1, pred_gradient_2))
            /\ UNCHANGED error
    /\ UNCHANGED <<data_points, events, raw_segments, processed_segments,
                   event_gradients, usage_points, pred_gradient_1,
                   pred_gradient_2, sourceVars>>

\* the analysis and the three figures as analyzer.py runs them, without
\* events, over readings days apart
NextPrediction ==
    \/ CalculateSegments
    \/ CalculateSegmentMetrics
    \/ CalculateEventGradientsNone
    \/ CalculatePredictionGradients
    \/ CreateSegmentPlot
    \/ CreateEventGradientPlot
    \/ CreatePredictionPlot

SpecPrediction == Loaded(PredictionInputs) /\ [][NextPrediction]_vars

\* the analysis up to the candidate gradients over readings with duplicate
\* timestamps, without events or with one event
CalculateEventGradientsSingle == AlignEvents({<<>>} \cup {<<e>> : e \in Events})

NextZero ==
    \/ CalculateSegments
    \/ CalculateSegmentMetrics
    \/ CalculateEventGradientsSingle
    \/ CalculatePredictionGradients

SpecZero == Loaded(SeqsUpTo(Readings, MaxZeroLen)) /\ [][NextZero]_vars

\* the parser on its own: analyzer.py line 362
Raw ==
    /\ raw_data \in RawTexts
    /\ data_points = <<>>
    /\ Blank
    /\ NoFile
    /\ pc = "raw"

ParseBatteryData ==
    /\ pc = "raw"
    /\ pc' = "loaded"
    /\ data_points' = parse_battery_data(raw_data).data_points
    /\ diagnostics' = parse_battery_data(raw_data).diagnostics
    /\ UNCHANGED <<events, raw_segments, processed_segments, event_gradients,
                   laterVars, error, raw_data, workbook, file_path, excel_data>>

NextParser == ParseBatteryData

SpecParser == Raw /\ [][NextParser]_vars

\* lines 56-58 of src/main.py, with the functions of analyzer/plotting.py
StaircaseSegmentPlot ==
    /\ pc = "estimated"
    /\ IF segment_plot_raises(processed_segments)
       THEN /\ pc' = "failed"
            /\ error' = "ZeroDivisionError"
            /\ UNCHANGED figures
       ELSE /\ pc' = "segment_plot"
            /\ figures' = Append(figures,
                  analyzer_create_segment_plot(data_points, processed_segments, events))
            /\ UNCHANGED error
    /\ UNCHANGED <<data_points, events, raw_segments, processed_segments,
                   event_gradients, usage_points, pred_gradient_1,
                   pred_gradient_2, predictions, sourceVars>>

StaircaseEventGradientPlot ==
    /\ pc = "segment_plot"
    /\ IF event_gradient_plot_raises(event_gradients)
       THEN /\ pc' = "failed"
            /\ error' = "ZeroDivisionError"
            /\ UNCHANGED figures
       ELSE /\ pc' = "event_plot"
            /\ figures' = Append(figures,
                  analyzer_create_event_gradient_plot(data_points, event_gradients, events))
            /\ UNCHANGED error
    /\ UNCHANGED <<data_points, events, raw_segments, processed_segments,
                   event_gradients, usage_points, pred_gradient_1,
                   pred_gradient_2, predictions, sourceVars>>

StaircasePredictionPlot ==
    /\ pc = "event_plot"
    /\ IF data_points = <<>>
       THEN /\ pc' = "failed"
            /\ error' = "IndexError"
            /\ UNCHANGED <<predictions, figures>>
       ELSE /\ pc' = "prediction_plot"
            /\ predictions' =
                  prediction_lines(data_points, pred_gradient_1, pred_gradient_2)
            /\ figures' = Append(figures,
                  analyzer_create_prediction_plot(data_points, pred_gradient_1,
                                                  pred_gradient_2))
            /\ UNCHANGED error
    /\ UNCHANGED <<data_points, events, raw_segments, processed_segments,
                   event_gradients, usage_points, pred_gradient_1,
                   pred_gradient_2, sourceVars>>

\* the analysis and the figures with staircases, without events or with one
NextStaircase ==
    \/ CalculateSegments
    \/ CalculateSegmentMetrics
    \/ CalculateEventGradientsSingle
    \/ CalculatePredictionGradients
    \/ StaircaseSegmentPlot
    \/ StaircaseEventGradientPlot
    \/ StaircasePredictionPlot

SpecStaircase == Loaded(SeqsUpTo(Readings, MaxAlignLen)) /\ [][NextStaircase]_vars

\* main() of src/main.py from the file dialog to the figures
Started ==
    /\ workbook \in Workbooks
    /\ file_path = "unset"
    /\ excel_data = NoExcelData
    /\ raw_data = <<>>
    /\ data_points = <<>>
    /\ Blank
    /\ pc = "start"

\* line 36 and get_excel_file_path
GetExcelFilePath ==
    /\ pc = "start"
    /\ pc' = "selected"
    /\ \E path \in Paths :
          /\ file_path' = path
          /\ diagnostics' = IF path = "None"
                            THEN Append(diagnostics, "No file selected. Exiting.")
                            ELSE diagnostics
    /\ UNCHANGED <<data_points, events, raw_segments, processed_segments,
                   event_gradients, laterVars, error, raw_data, workbook, excel_data>>

\* line 37
LoadDataFromExcel ==
    /\ pc = "selected"
    /\ pc' = "read"
    /\ excel_data' = load_data_from_excel(file_path, workbook)
    /\ diagnostics' =
          IF load_error(file_path, workbook) = "FileNotFoundError"
          THEN Append(diagnostics, "Error: The file was not found.")
          ELSE IF load_error(file_path, workbook) = "Exception"
          THEN Append(diagnostics, "An error occurred")
          ELSE diagnostics
    /\ UNCHANGED <<data_points, events, raw_segments, processed_segments,
                   event_gradients, laterVars, error, raw_data, workbook, file_path>>

\* lines 38-46: main() returns on None and on an empty list of readings
UnpackExcelData ==
    /\ pc = "read"
    /\ IF excel_data.value = "None"
       THEN /\ pc' = "exited"
            /\ UNCHANGED <<data_points, events, diagnostics, error>>
       ELSE IF excel_data.keys # {"battery_data", "events_data"}
       THEN /\ pc' = "failed"
            /\ error' = "KeyError"
            /\ UNCHANGED <<data_points, events, diagnostics>>
       ELSE /\ data_points' = excel_data.battery_data
            /\ events' = excel_data.events_data
            /\ IF excel_data.battery_data = <<>>
               THEN /\ pc' = "exited"
                    /\ diagnostics' =
                          Append(diagnostics, "No battery data found to process.")
               ELSE /\ pc' = "loaded"
                    /\ UNCHANGED diagnostics
            /\ UNCHANGED error
    /\ UNCHANGED <<raw_segments, processed_segments, event_gradients, laterVars,
                   raw_data, workbook, file_path, excel_data>>

\* line 51, with the events of the workbook
CalculateEventGradientsLoaded == AlignEvents({events})

\* lines 60-63
ShowFigures ==
    /\ pc = "prediction_plot"
    /\ pc' = "shown"
    /\ UNCHANGED <<data_points, events, raw_segments, processed_segments,
                   event_gradients, laterVars, error, sourceVars>>

NextMain ==
    \/ GetExcelFilePath
    \/ LoadDataFromExcel
    \/ UnpackExcelData
    \/ CalculateSegments
    \/ CalculateSegmentMetrics
    \/ CalculateEventGradientsLoaded
    \/ CalculatePredictionGradients
    \/ StaircaseSegmentPlot
    \/ StaircaseEventGradientPlot
    \/ StaircasePredictionPlot
    \/ ShowFigures

SpecMain == Started /\ [][NextMain]_vars

\* the pipeline up to the event aligner, over lists of labelled events
CalculateEventGradientsTagged == AlignEvents(SeqsUpTo(TaggedEvents, MaxEventList))

NextEvents ==
    \/ CalculateSegments
    \/ CalculateSegmentMetrics
    \/ CalculateEventGradientsTagged

SpecEvents == Loaded(SeqsUpTo(Readings, MaxAlignLen)) /\ [][NextEvents]_vars

\* calculate_segments alone
NextSegments == CalculateSegments

SpecSegments == InitSegments /\ [][NextSegments]_vars

\* calculate_segments followed by calculate_segment_metrics
NextMetrics ==
    \/ CalculateSegments
    \/ CalculateSegmentMetrics

SpecMetrics == InitMetrics /\ [][NextMetrics]_vars
====
